---- MODULE Spec2Model ----
(***************************************************************************)
(* Model of machines_monitoring: MachineMonitor (monitor.py) polls one     *)
(* remote host over a persistent ssh shell and puts snapshots on a shared  *)
(* queue; Dashboard (dashboard.py) drains the queue into its store and     *)
(* repaints.                                                               *)
(*                                                                         *)
(* Text is modelled structurally: a line is the sequence of its fields     *)
(* (strings), an output is a sequence of lines.  Numbers are parsed from   *)
(* the field strings by IntVal / FloatVal, floats are kept in hundredths.  *)
(*                                                                         *)
(* The ssh child process and its pipes are the environment: every          *)
(* operation on them (Popen, write, readline, read) either returns,        *)
(* raises, or blocks, chosen by the inputs of the actions.                 *)
(***************************************************************************)
EXTENDS Integers, Sequences, FiniteSets, TLC

\* ------------------------------------------------------------------ bounds
\* Poll cycles one poller runs before it is left sleeping (the loop is endless).
MaxCycles == 2
\* Calls of get_remote_info one session serves in the call-level specification.
MaxCalls == 3
\* Lines of the output handed to parse_gpu.
MaxLines == 3

\* The largest screen safe_addstr is tried on, and the longest text.
MaxRow == 3
MaxCol == 4
MaxText == 6

\* ------------------------------------------------------- program constants
\* Dashboard.margin
margin == 2
\* the floor of min_col_width in update_display
BaselineWidth == 60
\* Dashboard.max_devices
max_devices == 8
\* exit_code before a sentinel is parsed, and after a ValueError
NoExitCode == -1
\* the configured refresh_interval
RefreshInterval == 2

\* The configured machines (config["machines"]).
Machines ==
    << [host |-> "gpu01", type |-> "GPU"],
       [host |-> "xpu02", type |-> "XPU"] >>

Hosts == { Machines[i].host : i \in DOMAIN Machines }

\* self.machine["type"] of the monitor of host h
TypeOf(h) == Machines[CHOOSE i \in DOMAIN Machines : Machines[i].host = h].type

\* ------------------------------------------------------------ text values
\* int(s): the field strings that int() accepts, with their values.
IntVal ==
    ("0" :> 0) @@ ("1" :> 1) @@ ("2" :> 2) @@ ("3" :> 3) @@ ("50" :> 50) @@
    ("60" :> 60) @@ ("120" :> 120) @@ ("1024" :> 1024) @@ ("8192" :> 8192) @@
    ("4242" :> 4242) @@ ("536870912" :> 536870912) @@
    ("1610612736" :> 1610612736)

IsInt(s) == s \in DOMAIN IntVal

\* float(s) in hundredths: every int string, and the decimal strings below.
FloatVal ==
    [s \in DOMAIN IntVal |-> IF IntVal[s] < 10000 THEN IntVal[s] * 100 ELSE 0] @@
    ("37.5" :> 3750) @@ ("120.5" :> 12050) @@ ("93.0" :> 9300)

IsFloat(s) == s \in DOMAIN FloatVal

\* The marker get_remote_info appends to a command, and _init_shell's marker.
Sentinel == "CMD_FINISHED"
ReadyMarker == "SHELL_READY"

\* `"CMD_FINISHED_" in line`
HasSentinel(line) == \E i \in DOMAIN line : line[i] = Sentinel

\* line.split("_")[-1].strip(): the text after the last underscore.
CodePart(line) == line[Len(line)]

\* The try/except around int(code_part): a ValueError gives -1.
ParseExitCode(line) ==
    IF IsInt(CodePart(line)) THEN IntVal[CodePart(line)] ELSE NoExitCode

\* ------------------------------------------------- RemoteSession (monitor.py)
\* What the environment does to one ssh_connect call:
\*   "ready"   the child is alive after 1 s and SHELL_READY is read within 3 s
\*   "unready" the child is alive, the 3 s of _init_shell pass without the marker
\*   "refused" the child has exited (poll() is not None) and the branch returns
\*   "raise"   Popen, a pipe operation or the stderr read raises
\*   "hang"    readline() in _init_shell never returns
\* As the file stands, "raise" is what happens: monitor.py names os.devnull
\* without importing os, and the child's stdout and stderr are files, not pipes,
\* so that self.ssh.stdout and self.ssh.stderr are None.  The other outcomes are
\* those of the same code on a channel whose pipes exist.
ConnOutcomes == {"ready", "unready", "refused", "raise", "hang"}

\* _init_shell: writes the four init commands, then reads lines until the marker
\* is seen or 3 s have passed.  Nothing is returned and nothing records whether
\* the marker was seen: "seen" is what the channel really did.
InitShell(o) ==
    CASE o = "ready"   -> [res |-> "ret", seen |-> TRUE]
      [] o = "unready" -> [res |-> "ret", seen |-> FALSE]
      [] o = "hang"    -> [res |-> "hang", seen |-> FALSE]
      [] OTHER         -> [res |-> "raise", seen |-> FALSE]

\* ssh_connect with self.connected = c: res is "true" / "false" (the value
\* returned), "raise" or "hang"; connected is self.connected afterwards; ready
\* tells whether SHELL_READY was read on the channel now held in self.ssh.
SshConnect(c, o) ==
    IF o = "refused"
    THEN [res |-> "false", connected |-> FALSE, ready |-> FALSE]
    ELSE LET sh == InitShell(o) IN
         IF sh.res = "ret"
         THEN [res |-> "true", connected |-> TRUE, ready |-> sh.seen]
         ELSE [res |-> sh.res, connected |-> c, ready |-> FALSE]

\* The read loop of get_remote_info over the lines the channel delivers in the
\* 10 s window: lines before the sentinel are collected, the sentinel line gives
\* the exit code and ends the loop.
RECURSIVE ReadLoop(_, _)
ReadLoop(stream, output) ==
    IF stream = << >>
    THEN [found |-> FALSE, code |-> NoExitCode, output |-> output]
    ELSE IF HasSentinel(Head(stream))
         THEN [found |-> TRUE, code |-> ParseExitCode(Head(stream)),
               output |-> output]
         ELSE ReadLoop(Tail(stream), Append(output, Head(stream)))

\* (mutant) the output is returned whatever the exit code.
ReturnOutputAlways(exit_code, output) == output

\* What the code returns once the loop has ended with exit_code and output.
ReturnOutput(exit_code, output) ==
    IF exit_code # 0 THEN << >> ELSE output

\* (mutant) the except branch forgets self.connected = False.
OnExceptionStaysConnected(rd) ==
    [res |-> "ret", ret |-> << >>, connected |-> TRUE, ready |-> rd,
     kind |-> "ioerror"]

\* The except branch of get_remote_info: self.connected = False, return "".
OnException(rd) ==
    [res |-> "ret", ret |-> << >>, connected |-> FALSE, ready |-> rd,
     kind |-> "ioerror"]

\* The end of the read loop without a sentinel:
\*   "timeout" 10 s pass (exit_code is still -1)
\*   "raise"   readline raises
\*   "hang"    readline never returns
NoSentinel(cn, rd, term) ==
    CASE term = "timeout" ->
            [res |-> "ret", ret |-> ReturnOutput(NoExitCode, << >>),
             connected |-> cn, ready |-> rd, kind |-> "timeout"]
      [] term = "raise" -> OnException(rd)
      [] OTHER ->
            [res |-> "hang", ret |-> << >>, connected |-> cn, ready |-> rd,
             kind |-> "hang"]

\* get_remote_info from the write on, on a session with connected = cn.
SendAndRead(cn, rd, inp) ==
    IF inp.write = "raise"
    THEN OnException(rd) @@ [code |-> NoExitCode, out |-> << >>, wrote |-> FALSE]
    ELSE LET rl == ReadLoop(inp.stream, << >>) IN
         IF rl.found
         THEN [res |-> "ret", ret |-> ReturnOutput(rl.code, rl.output),
               connected |-> cn, ready |-> rd,
               kind |-> IF rl.code = 0 THEN "ok" ELSE "nonzero",
               code |-> rl.code, out |-> rl.output, wrote |-> TRUE]
         ELSE NoSentinel(cn, rd, inp.term) @@
              [code |-> NoExitCode, out |-> rl.output, wrote |-> TRUE]

\* Whether get_remote_info calls ssh_connect: `not self.connected and not ...`.
NeedsConnect(c) == ~c

\* get_remote_info(cmd) on a session with self.connected = c, whose channel has
\* (r) or has not shown SHELL_READY.  inp is what the environment does:
\* [conn, write, stream, term].  The result tells how the call ends (res: "ret",
\* "raise", "hang"), the string returned (ret, as lines), the session afterwards
\* and, for the record, the exit code, the lines read before the sentinel, the
\* number of ssh_connect calls made, whether the command was written and
\* whether the channel it went to had shown SHELL_READY (chanReady).
GetRemoteInfo(c, r, inp) ==
    IF NeedsConnect(c)
    THEN LET sc == SshConnect(c, inp.conn) IN
         CASE sc.res = "true" ->
                SendAndRead(sc.connected, sc.ready, inp) @@
                [reconn |-> 1, chanReady |-> sc.ready]
           [] sc.res = "false" ->
                [res |-> "ret", ret |-> << >>, connected |-> sc.connected,
                 ready |-> sc.ready, kind |-> "connfail", code |-> NoExitCode,
                 out |-> << >>, wrote |-> FALSE, reconn |-> 1,
                 chanReady |-> FALSE]
           [] OTHER ->
                [res |-> sc.res, ret |-> << >>, connected |-> sc.connected,
                 ready |-> sc.ready, kind |-> IF sc.res = "raise" THEN "connraise" ELSE "connhang",
                 code |-> NoExitCode, out |-> << >>, wrote |-> FALSE,
                 reconn |-> 1, chanReady |-> FALSE]
    ELSE SendAndRead(c, r, inp) @@ [reconn |-> 0, chanReady |-> r]

\* ----------------------------------------------- MetricCollector (monitor.py)
\* output.split("\n") of the string "\n".join(lines): the empty string splits
\* into one empty line.
SplitLines(ret) == IF ret = << >> THEN << << >> >> ELSE ret

\* output.strip().split(): the whitespace-separated tokens of the whole output.
RECURSIVE Tokens(_)
Tokens(ret) == IF ret = << >> THEN << >> ELSE Head(ret) \o Tokens(Tail(ret))

\* get_cpu_info after the call: float(output.strip()), 0.0 on any exception.
CpuInfo(ret) ==
    IF Len(ret) = 1 /\ Len(ret[1]) = 1 /\ IsFloat(ret[1][1])
    THEN FloatVal[ret[1][1]]
    ELSE 0

\* 1024**3
GiB == 1073741824

\* round(n / d) of Python 3: to the nearest integer, a tie to the even one.
Round(n, d) ==
    LET q == n \div d
        r == n % d
    IN  IF 2 * r < d THEN q
        ELSE IF 2 * r > d THEN q + 1
        ELSE IF q % 2 = 0 THEN q ELSE q + 1

\* used / total * 100, kept to the whole percent.  Byte counts of a MiB and
\* more are whole MiB in the model and are divided first, so that the product
\* fits 32-bit integers.
Percent(used, total) ==
    IF total < 1048576 THEN (used * 100) \div total
    ELSE ((used \div 1048576) * 100) \div (total \div 1048576)

ZeroMem == [percent |-> 0, used_gb |-> 0, total_gb |-> 0]

\* get_mem_info after the call: two ints, total then used; the zero record on
\* any exception (wrong token count, a non-int, total = 0).
MemInfo(ret) ==
    LET t == Tokens(ret) IN
    IF Len(t) = 2 /\ IsInt(t[1]) /\ IsInt(t[2]) /\ IntVal[t[1]] # 0
    THEN [percent |-> Percent(IntVal[t[2]], IntVal[t[1]]),
          used_gb |-> Round(IntVal[t[2]], GiB),
          total_gb |-> Round(IntVal[t[1]], GiB)]
    ELSE ZeroMem

\* One line of parse_gpu, split at ", ": a record, or nothing when the line is
\* empty, has no ", " or the unpacking or a conversion raises.
ParseGpuLine(line) ==
    IF Len(line) = 6 /\ (\A i \in 1..5 : IsInt(line[i])) /\ IsFloat(line[6])
    THEN << [id |-> IntVal[line[1]], used |-> IntVal[line[2]],
             total |-> IntVal[line[3]], util |-> IntVal[line[4]],
             temp |-> IntVal[line[5]], power |-> FloatVal[line[6]],
             type |-> "GPU"] >>
    ELSE << >>

\* One line of parse_xpu, split at whitespace: fewer than 32 parts are skipped,
\* a conversion that raises is printed and the line dropped.
ParseXpuLine(parts) ==
    IF Len(parts) >= 32 /\ (\A i \in {3, 5, 9, 18, 19, 20} : IsInt(parts[i]))
    THEN << [id |-> IntVal[parts[3]], used |-> IntVal[parts[18]],
             total |-> IntVal[parts[19]], util |-> IntVal[parts[20]],
             temp |-> IntVal[parts[5]], power |-> IntVal[parts[9]] * 100,
             type |-> "XPU"] >>
    ELSE << >>

\* (mutant) the first line that gives no record ends the parse.
RECURSIVE ParseLinesUntilBad(_, _)
ParseLinesUntilBad(lines, type) ==
    LET rec == IF type = "GPU" THEN ParseGpuLine(Head(lines))
                               ELSE ParseXpuLine(Head(lines))
    IN  IF lines = << >> THEN << >>
        ELSE IF rec = << >> THEN << >>
        ELSE rec \o ParseLinesUntilBad(Tail(lines), type)

\* The loop of parse_gpu / parse_xpu over the lines.
RECURSIVE ParseLines(_, _)
ParseLines(lines, type) ==
    IF lines = << >> THEN << >>
    ELSE (IF type = "GPU" THEN ParseGpuLine(Head(lines))
                          ELSE ParseXpuLine(Head(lines)))
         \o ParseLines(Tail(lines), type)

\* parse_gpu(output)
ParseGpu(ret) == ParseLines(SplitLines(ret), "GPU")

\* parse_xpu(output)
ParseXpu(ret) == ParseLines(SplitLines(ret), "XPU")

\* The devices entry of monitor(): get_gpu_info or get_xpu_info by machine type.
DeviceInfo(type, ret) == IF type = "GPU" THEN ParseGpu(ret) ELSE ParseXpu(ret)

RECURSIVE ProcessLines(_)
ProcessLines(lines) ==
    IF lines = << >> THEN << >>
    ELSE (IF Head(lines) # << >> /\ Head(lines)[1] # "PID"
          THEN << Head(lines) >> ELSE << >>)
         \o ProcessLines(Tail(lines))

\* get_processes after the call: the non-empty lines that do not start with
\* PID, each split into at most five fields; the first five of them.
Processes(ret) ==
    LET ps == ProcessLines(SplitLines(ret)) IN
    SubSeq(ps, 1, IF Len(ps) < 5 THEN Len(ps) ELSE 5)

\* The data dictionary monitor() builds (the timestamp, which nothing reads, is
\* left out), and the None it puts for a failure.
Snapshot(cpu, mem, devices, processes) ==
    [kind |-> "data", cpu |-> cpu, mem |-> mem, devices |-> devices,
     processes |-> processes]

None == [kind |-> "None"]

\* The get_remote_info calls of one pass of the loop body of monitor(), in
\* order, on a session (c, r); sc gives what the environment does to each.
\* Stops at the first call that does not return.  rets are the strings the
\* calls returned, failed tells whether a call ended otherwise than by exit
\* code 0.
RECURSIVE RunCalls(_, _, _, _, _)
RunCalls(c, r, sc, rets, failed) ==
    IF sc = << >>
    THEN [res |-> "data", rets |-> rets, connected |-> c, ready |-> r,
          failed |-> failed]
    ELSE LET g == GetRemoteInfo(c, r, Head(sc)) IN
         IF g.res # "ret"
         THEN [res |-> g.res, rets |-> rets, connected |-> g.connected,
               ready |-> g.ready, failed |-> TRUE]
         ELSE RunCalls(g.connected, g.ready, Tail(sc), Append(rets, g.ret),
                       failed \/ g.kind # "ok")

\* One pass of the loop body of monitor() on a machine of the given type: the
\* four calls (CPU, memory, devices, processes) and the dictionary built from
\* what they returned.  res is "data", "raise" (an exception left one of the
\* calls) or "hang".
CollectCycle(c, r, type, sc) ==
    LET run == RunCalls(c, r, sc, << >>, FALSE) IN
    [res |-> run.res,
     data |-> IF run.res = "data"
              THEN Snapshot(CpuInfo(run.rets[1]), MemInfo(run.rets[2]),
                            DeviceInfo(type, run.rets[3]),
                            Processes(run.rets[4]))
              ELSE None,
     connected |-> run.connected,
     ready |-> run.ready,
     failed |-> run.failed]

\* ------------------------------------------------------------ environment
\* The sentinel line a remote shell prints for exit code `code`.
Fin(code) == << Sentinel, code >>

CpuOut == << << "37.5" >> >>
CpuGarbled == << << "n/a" >> >>
MemOut == << << "1610612736", "536870912" >> >>
GpuOut == << << "0", "1024", "8192", "50", "60", "120.5" >> >>
GpuZeroTotal == << << "1", "0", "0", "0", "60", "120.5" >> >>
XpuFields(id, temp, power, used, total, util) ==
    [i \in 1..32 |->
        CASE i = 3 -> id [] i = 5 -> temp [] i = 9 -> power [] i = 18 -> used
          [] i = 19 -> total [] i = 20 -> util [] OTHER -> "0"]
XpuOut == << XpuFields("0", "60", "120", "1024", "8192", "50") >>
ProcHeader == << "PID", "USER", "%CPU", "%MEM", "COMMAND" >>
ProcOut == << ProcHeader, << "4242", "root", "93.0", "1", "python" >> >>
ProcShort == << ProcHeader, << "4242", "root", "93.0", "1" >> >>

\* The call goes through: the channel delivers `lines`, then the sentinel of
\* exit code `code`.
Deliver(lines, code) ==
    [conn |-> "ready", write |-> "ok", stream |-> lines \o << Fin(code) >>,
     term |-> "timeout"]
\* The channel delivers `lines` and no sentinel; the read loop ends by `term`.
Silent(lines, term) ==
    [conn |-> "ready", write |-> "ok", stream |-> lines, term |-> term]
\* The write of the command raises (the pipe is broken).
Broken == [conn |-> "ready", write |-> "raise", stream |-> << >>,
           term |-> "timeout"]
\* The same input on a session that has to reconnect first, with outcome o.
Reconnecting(inp, o) == [inp EXCEPT !.conn = o]

DevOut(type) == IF type = "GPU" THEN GpuOut ELSE XpuOut

\* The healthy pass: every command answers with exit code 0.
Healthy(type) ==
    << Deliver(CpuOut, "0"), Deliver(MemOut, "0"), Deliver(DevOut(type), "0"),
       Deliver(ProcOut, "0") >>

\* What the environment may do to one pass of the loop body.
Scenarios(type) ==
    { Healthy(type),
      \* accepted by the parsers, degenerate for the renderer
      [Healthy(type) EXCEPT ![3] = Deliver(IF type = "GPU" THEN GpuZeroTotal
                                                            ELSE XpuOut, "0"),
                            ![4] = Deliver(IF type = "GPU" THEN ProcOut
                                                            ELSE ProcShort, "0")],
      \* the CPU command prints something float() rejects
      [Healthy(type) EXCEPT ![1] = Deliver(CpuGarbled, "0")],
      \* the memory command exits with 1
      [Healthy(type) EXCEPT ![2] = Deliver(MemOut, "1")],
      \* no sentinel for the memory command within 10 s
      [Healthy(type) EXCEPT ![2] = Silent(MemOut, "timeout")],
      \* the first read never returns
      [Healthy(type) EXCEPT ![1] = Silent(<< >>, "hang")] }
    \cup
    \* the pipe breaks at the first command; every later call reconnects with
    \* the same outcome
    { [i \in 1..4 |-> IF i = 1 THEN Broken
                      ELSE Reconnecting(Healthy(type)[i], o)] :
        o \in ConnOutcomes }

\* ------------------------------------------------- Renderer (dashboard.py)
Min(a, b) == IF a < b THEN a ELSE b
Max(a, b) == IF a > b THEN a ELSE b

\* The sizes getmaxyx() may report, << max_y, max_x >>.
TermSizes == { << 24, 80 >>, << 24, 130 >> }

\* draw_util_bar raises exactly when mem_used / mem_total divides by zero.
DrawUtilBarRaises(dev) == dev.total = 0

\* The process line of draw_machine_block raises when one of the first three
\* processes has no fifth field (p[4]) or a third field float() rejects.
ProcLineRaises(processes) ==
    \E i \in 1..Min(Len(processes), 3) :
        Len(processes[i]) < 5 \/ ~IsFloat(processes[i][3])

\* draw_machine_block at start_row on a screen of max_y rows: the height it
\* returns and whether it raises on the way.
DrawMachineBlock(start_row, max_y, info) ==
    LET devs == SubSeq(info.devices, 1, Min(Len(info.devices), 8))
        \* device rows drawn before `start_row + height >= max_y - 2` breaks
        shown == Max(0, Min(Len(devs), (max_y - 2) - (start_row + 2)))
        h1 == 2 + shown
        procs == info.processes # << >> /\ start_row + h1 < max_y - 2
    IN  [height |-> h1 + (IF procs THEN 1 ELSE 0) + 1,
         raised |-> \/ \E i \in 1..shown : DrawUtilBarRaises(devs[i])
                    \/ procs /\ ProcLineRaises(info.processes)]

\* (mutant) the height of the frame alone: the device rows and the process
\* line are not counted.
BlockHeightOfFrame(info) == 3

\* block_height of update_display
BlockHeight(info) ==
    3 + Min(Len(info.devices), max_devices)
      + (IF info.processes # << >> THEN 1 ELSE 0)

\* sorted(...) of the host names
SortedHosts == << "gpu01", "xpu02" >>

\* len(m["host"]) of the configured names
HostLen(h) == 5

\* min_col_width of update_display: the longest host name plus 6, at least 60
MinColWidth ==
    LET longest == CHOOSE n \in { HostLen(h) : h \in Hosts } :
                       \A h \in Hosts : HostLen(h) <= n
    IN  Max(longest + 6, BaselineWidth)

\* cols of update_display
Cols(max_x) == Max(1, (max_x - margin) \div (MinColWidth + margin))

\* col_width of update_display
ColWidth(max_x) ==
    Min(MinColWidth, (max_x - margin * (Cols(max_x) + 1)) \div Cols(max_x))

\* The loop of update_display over sorted(self.data.keys()), from the i-th key
\* on, with the loop's variables; hosts are the names of self.machines in
\* sorted order, store maps a host to its "latest" entry.
\* Gives the panels placed and whether a draw raised.
RECURSIVE PlaceFrom(_, _, _, _, _, _, _, _)
PlaceFrom(hosts, i, row, col, drawn, placed, size, store) ==
    LET max_y == size[1]
        max_x == size[2]
        host == hosts[i]
        info == store[host]
        bh == BlockHeight(info)
        wrap == col + ColWidth(max_x) > max_x - margin
        row1 == IF wrap THEN row + bh + margin ELSE row
        col1 == IF wrap THEN margin ELSE col
        blk == DrawMachineBlock(row1, max_y, info)
        drawn2 == drawn + 1
        newrow == drawn2 % Cols(max_x) = 0
    IN  IF i > Len(hosts) \/ drawn >= Len(hosts)
        THEN [placed |-> placed, raised |-> FALSE]
        ELSE IF store[host].kind = "nokey"
        THEN PlaceFrom(hosts, i + 1, row, col, drawn, placed, size, store)
        ELSE IF info.kind = "None"
        THEN PlaceFrom(hosts, i + 1, row, col, drawn, placed, size, store)
        ELSE IF row1 + bh > max_y - 2
        THEN [placed |-> placed, raised |-> FALSE]
        ELSE IF blk.raised
        THEN [placed |-> placed, raised |-> TRUE]
        ELSE PlaceFrom(hosts, i + 1,
                       IF newrow THEN row1 + blk.height + margin ELSE row1,
                       IF newrow THEN margin
                                 ELSE col1 + ColWidth(max_x) + margin,
                       drawn2,
                       Append(placed, [host |-> host, row |-> row1,
                                       col |-> col1,
                                       width |-> ColWidth(max_x),
                                       height |-> blk.height]),
                       size, store)

\* (mutant) the panels are laid out for the size remembered from the repaint
\* before, when there was one.
UpdateDisplayForOldSize(hosts, last, size, store) ==
    PlaceFrom(hosts, 1, 1, margin, 0, << >>,
              IF last = << 0, 0 >> THEN size ELSE last, store)
    @@ [cleared |-> size # last, last_win_size |-> size]

\* update_display of a dashboard of these hosts whose last_win_size is `last`,
\* on a screen of the given size: the panels placed, whether a draw raised,
\* whether the screen was cleared first, and last_win_size afterwards.
UpdateDisplay(hosts, last, size, store) ==
    PlaceFrom(hosts, 1, 1, margin, 0, << >>, size, store)
    @@ [cleared |-> size # last, last_win_size |-> size]

\* ------------------------------------------------------------------ state
VARIABLES
    connected,      \* host -> MachineMonitor.connected
    ready,          \* host -> SHELL_READY was read on the channel in self.ssh
    pc,             \* host -> where the caller of the monitor stands
    cycles,         \* host -> passes of the loop body done
    hadGood,        \* host -> a pass with every call at exit code 0 was published
    published,      \* host -> number of queue.put calls made
    last,           \* host -> the record of the last get_remote_info call
    calls,          \* host -> get_remote_info calls made by the direct caller
    queue,          \* the shared Queue, oldest first
    data,           \* Dashboard.data: host -> its "latest" entry
    stale,          \* host -> the last snapshot of a good pass the store took
    uiPc,           \* where Dashboard.run stands
    running,        \* Dashboard.running
    has_update,     \* the local has_update of run
    elapsed,        \* time.time() - self.last_update, up to refresh_interval
    last_win_size,  \* Dashboard.last_win_size
    sent,           \* host -> the payloads the poller has put, oldest first
    key,            \* the key getch() returned in the iteration that just ended
    painted,        \* update_display was called in the current iteration
    sinceRepaint,   \* time since the last call of update_display, up to the same
    placed,         \* the panels the last update_display placed
    output,         \* the output handed to parse_gpu, as lines
    gpus,           \* what parse_gpu returned for it, once it has
    pipe,           \* host -> the lines in its channel that nobody has read yet
    target,         \* the arguments of a safe_addstr call and the screen size
    written         \* what the call wrote, once it has returned

vars == << connected, ready, pc, cycles, hadGood, published, last, calls,
           queue, data, stale, uiPc, running, has_update, elapsed,
           last_win_size, sent, key, painted, sinceRepaint, placed,
           output, gpus, pipe, target, written >>

sessionVars == << connected, ready >>
pollerVars == << pc, cycles, hadGood, published, sent >>
callVars == << last, calls >>
uiVars == << data, stale, uiPc, running, has_update, elapsed, last_win_size,
            key, painted, sinceRepaint, placed >>

probeVars == << output, gpus, pipe, target, written >>

\* self.data[host] before any event of the host: defaultdict has no such key.
NoKey == [kind |-> "nokey"]

\* The record of a get_remote_info call: how it ended (kind), how the call
\* before it ended (prev), self.connected on entry (pre), the exit code, the
\* lines read before the sentinel (out), the lines returned (ret), the number of
\* ssh_connect calls (reconn), whether the command was written (wrote) and
\* whether the channel it was written to had shown SHELL_READY (chanReady).
NoCall == [kind |-> "none", prev |-> "none", pre |-> FALSE, code |-> NoExitCode,
           out |-> << >>, ret |-> << >>, reconn |-> 0, wrote |-> FALSE,
           chanReady |-> FALSE]

CallRecord(g, prev, pre) ==
    [kind |-> g.kind, prev |-> prev, pre |-> pre, code |-> g.code,
     out |-> g.out, ret |-> g.ret, reconn |-> g.reconn, wrote |-> g.wrote,
     chanReady |-> g.chanReady]

\* No call has been made yet.
NotYet == [done |-> FALSE]

\* Nothing has been handed to parse_gpu or safe_addstr, the channels are empty.
Untried ==
    /\ output = << >>
    /\ gpus = NotYet
    /\ pipe = [h \in Hosts |-> << >>]
    /\ target = NotYet
    /\ written = NotYet

\* The monitors and the dashboard after construction.
Constructed ==
    /\ connected = [h \in Hosts |-> FALSE]
    /\ ready = [h \in Hosts |-> FALSE]
    /\ pc = [h \in Hosts |-> "start"]
    /\ cycles = [h \in Hosts |-> 0]
    /\ hadGood = [h \in Hosts |-> FALSE]
    /\ published = [h \in Hosts |-> 0]
    /\ last = [h \in Hosts |-> NoCall]
    /\ calls = [h \in Hosts |-> 0]
    /\ queue = << >>
    /\ data = [h \in Hosts |-> NoKey]
    /\ stale = [h \in Hosts |-> NoKey]
    /\ uiPc = "loop"
    /\ running = TRUE
    /\ has_update = FALSE
    /\ elapsed = RefreshInterval
    /\ last_win_size = << 0, 0 >>
    /\ sent = [h \in Hosts |-> << >>]
    /\ key = "none"
    /\ painted = FALSE
    /\ sinceRepaint = RefreshInterval
    /\ placed = << >>

Init == Constructed /\ Untried

\* ------------------------------------------------------- Poller (monitor.py)
\* An event on the queue: (host, data), with the history of the pass that made
\* it: src "connect" (the first ssh_connect failed) or "cycle", ok (every call
\* of the pass ended with exit code 0), afterGood (a good pass came before).
\* seq numbers the events of the host.
Event(h, seq, d, src, ok, afterGood) ==
    [host |-> h, seq |-> seq, data |-> d, src |-> src, ok |-> ok,
     afterGood |-> afterGood]

\* (mutant) a queue that hands out the newest item first.
PutFront(q, ev) == << ev >> \o q

\* self.queue.put(item) on a Queue: the item goes to the end.
Put(q, ev) == Append(q, ev)

\* The number of the next event of host h.
NextSeq(h) == Len(sent[h]) + 1

\* monitor() up to the loop: ssh_connect; on False put (host, None) and return.
\* An exception of ssh_connect is caught nowhere and ends the thread.
MonitorStart(h, outcomes) ==
    /\ pc[h] = "start"
    /\ \E o \in outcomes :
         LET sc == SshConnect(connected[h], o) IN
         /\ connected' = [connected EXCEPT ![h] = sc.connected]
         /\ ready' = [ready EXCEPT ![h] = sc.ready]
         /\ CASE sc.res = "true" ->
                   /\ pc' = [pc EXCEPT ![h] = "loop"]
                   /\ UNCHANGED << queue, published, sent >>
              [] sc.res = "false" ->
                   /\ queue' = Put(queue, Event(h, NextSeq(h), None, "connect",
                                                 FALSE, FALSE))
                   /\ published' = [published EXCEPT ![h] = @ + 1]
                   /\ sent' = [sent EXCEPT ![h] = Append(@, None)]
                   /\ pc' = [pc EXCEPT ![h] = "returned"]
              [] sc.res = "raise" ->
                   /\ pc' = [pc EXCEPT ![h] = "died"]
                   /\ UNCHANGED << queue, published, sent >>
              [] OTHER ->
                   /\ pc' = [pc EXCEPT ![h] = "blocked"]
                   /\ UNCHANGED << queue, published, sent >>
    /\ UNCHANGED << cycles, hadGood, callVars, uiVars >>
    /\ UNCHANGED probeVars

\* One pass of `while True` in monitor(): the four calls, the put of the
\* dictionary, the sleep; or, on an exception, the put of None and the break.
MonitorLoop(h, scenarios) ==
    /\ pc[h] = "loop"
    /\ cycles[h] < MaxCycles
    /\ \E sc \in scenarios :
         LET cy == CollectCycle(connected[h], ready[h], TypeOf(h), sc) IN
         /\ connected' = [connected EXCEPT ![h] = cy.connected]
         /\ ready' = [ready EXCEPT ![h] = cy.ready]
         /\ CASE cy.res = "data" ->
                   /\ queue' = Put(queue, Event(h, NextSeq(h), cy.data, "cycle",
                                                ~cy.failed, hadGood[h]))
                   /\ published' = [published EXCEPT ![h] = @ + 1]
                   /\ sent' = [sent EXCEPT ![h] = Append(@, cy.data)]
                   /\ hadGood' = [hadGood EXCEPT ![h] = @ \/ ~cy.failed]
                   /\ cycles' = [cycles EXCEPT ![h] = @ + 1]
                   /\ pc' = pc
              [] cy.res = "raise" ->
                   /\ queue' = Put(queue, Event(h, NextSeq(h), None, "cycle",
                                                FALSE, hadGood[h]))
                   /\ published' = [published EXCEPT ![h] = @ + 1]
                   /\ sent' = [sent EXCEPT ![h] = Append(@, None)]
                   /\ pc' = [pc EXCEPT ![h] = "broke"]
                   /\ UNCHANGED << hadGood, cycles >>
              [] OTHER ->
                   /\ pc' = [pc EXCEPT ![h] = "blocked"]
                   /\ UNCHANGED << queue, published, sent, hadGood, cycles >>
    /\ UNCHANGED << callVars, uiVars >>
    /\ UNCHANGED probeVars

\* ------------------------------------------------ DashboardLoop (dashboard.py)
\* The keys getch() may return within its 100 ms.
Keys == {"none", "q", "Q", "x"}

\* `while self.running:` and has_update = False
UiLoop ==
    /\ uiPc = "loop"
    /\ IF running
       THEN uiPc' = "check" /\ has_update' = FALSE /\ painted' = FALSE
                            /\ key' = "none"
       ELSE uiPc' = "exited" /\ UNCHANGED << has_update, painted, key >>
    /\ UNCHANGED << sessionVars, pollerVars, callVars, queue, data, stale,
                    running, elapsed, last_win_size, sinceRepaint, placed >>
    /\ UNCHANGED probeVars

\* (mutant) the loop calls get() without asking empty() first.
QueueNeverAsked(q) == TRUE

\* `not self.queue.empty()`
QueueNotEmpty(q) == q # << >>

\* `while not self.queue.empty():`
UiCheck ==
    /\ uiPc = "check"
    /\ uiPc' = IF QueueNotEmpty(queue) THEN "get" ELSE "refresh"
    /\ UNCHANGED << sessionVars, pollerVars, callVars, queue, data, stale,
                    running, has_update, elapsed, last_win_size, key, painted,
                    sinceRepaint, placed >>
    /\ UNCHANGED probeVars

\* self.data[host]["latest"] = data
Absorb(store, ev) == [store EXCEPT ![ev.host] = ev.data]

\* self.queue.get() and the three assignments after it.  get() on an empty
\* queue waits (uiPc = "waiting") until a producer has put an event.
UiGet ==
    /\ uiPc \in {"get", "waiting"}
    /\ IF queue = << >>
       THEN /\ uiPc' = "waiting"
            /\ UNCHANGED << queue, data, stale, has_update, elapsed >>
       ELSE /\ queue' = Tail(queue)
            /\ data' = Absorb(data, Head(queue))
            /\ stale' = IF Head(queue).ok
                        THEN [stale EXCEPT ![Head(queue).host] = Head(queue).data]
                        ELSE stale
            /\ elapsed' = 0
            /\ has_update' = TRUE
            /\ uiPc' = "check"
    /\ UNCHANGED << sessionVars, pollerVars, callVars, running, last_win_size,
                    key, painted, sinceRepaint, placed >>
    /\ UNCHANGED probeVars

\* (mutant) no forced refresh: a repaint only after new data.
RepaintOnUpdate(upd, el) == upd

\* The forced-refresh test of run()
RepaintDue(upd, el) == upd \/ el >= RefreshInterval

\* `if has_update or ...: self.update_display(); self.last_update = ...`.
\* An exception of update_display is caught nowhere and ends run().
UiRefresh(hosts, sizes) ==
    /\ uiPc = "refresh"
    /\ IF RepaintDue(has_update, elapsed)
       THEN \E size \in sizes :
               LET shown == UpdateDisplay(hosts, last_win_size, size, data) IN
               /\ last_win_size' = shown.last_win_size
               /\ painted' = TRUE
               /\ sinceRepaint' = 0
               /\ placed' = shown.placed
               /\ IF shown.raised
                  THEN uiPc' = "crashed" /\ UNCHANGED elapsed
                  ELSE uiPc' = "input" /\ elapsed' = 0
       ELSE /\ uiPc' = "input"
            /\ UNCHANGED << elapsed, last_win_size, painted, sinceRepaint,
                            placed >>
    /\ UNCHANGED << sessionVars, pollerVars, callVars, queue, data, stale,
                    running, has_update, key >>
    /\ UNCHANGED probeVars

\* `if key == ord('q'): self.running = False`
QuitKey(k) == k = "q"

\* getch(), the quit test and the sleep of 0.1 s
UiInput(keys) ==
    /\ uiPc = "input"
    /\ \E k \in keys :
          /\ key' = k
          /\ running' = IF QuitKey(k) THEN FALSE ELSE running
    /\ uiPc' = "loop"
    /\ UNCHANGED << sessionVars, pollerVars, callVars, queue, data, stale,
                    has_update, elapsed, last_win_size, painted, sinceRepaint,
                    placed >>
    /\ UNCHANGED probeVars

\* Time passes.
Tick ==
    /\ elapsed < RefreshInterval \/ sinceRepaint < RefreshInterval
    /\ elapsed' = Min(elapsed + 1, RefreshInterval)
    /\ sinceRepaint' = Min(sinceRepaint + 1, RefreshInterval)
    /\ UNCHANGED << sessionVars, pollerVars, callVars, queue, data, stale,
                    uiPc, running, has_update, last_win_size, key, painted,
                    placed >>
    /\ UNCHANGED probeVars

\* The thread of host h, in an environment that offers these connect outcomes
\* and these passes.
Poller(h, outcomes, scenarios) ==
    MonitorStart(h, outcomes) \/ MonitorLoop(h, scenarios)

\* Dashboard.run for the configured machines on a terminal of these sizes and
\* with these keys.
Ui(sizes, keys) ==
    UiLoop \/ UiCheck \/ UiGet \/ UiRefresh(SortedHosts, sizes) \/ UiInput(keys)

\* ------------------------------------------- direct use of a RemoteSession
\* The lines a command prints before its sentinel, in the call-level
\* specification.
SomeOutput == << << "line1" >>, << "line2" >> >>

Terms == {"timeout", "raise", "hang"}

\* What the environment may do to one get_remote_info call: the connect
\* outcome (used when the call reconnects), the write, the lines delivered and
\* how the read loop ends when no sentinel is among them.  The sentinel may
\* carry exit code 0, a non-zero code, or text int() rejects.
CallInputs ==
    { [conn |-> o, write |-> w, stream |-> st, term |-> t] :
        o \in ConnOutcomes, w \in {"ok", "raise"},
        st \in { SomeOutput \o << Fin("0") >>, SomeOutput \o << Fin("1") >>,
                 SomeOutput \o << Fin("n/a") >>, << Fin("0") >>, SomeOutput },
        t \in Terms }

\* A caller invokes get_remote_info on the monitor of host h (monitor() is not
\* running on it).  A call that never returns leaves the caller blocked.
Execute(h) ==
    /\ pc[h] = "start"
    /\ calls[h] < MaxCalls
    /\ \E inp \in CallInputs :
         LET g == GetRemoteInfo(connected[h], ready[h], inp) IN
         /\ connected' = [connected EXCEPT ![h] = g.connected]
         /\ ready' = [ready EXCEPT ![h] = g.ready]
         /\ last' = [last EXCEPT ![h] =
                        CallRecord(g, last[h].kind, connected[h])]
         /\ pc' = [pc EXCEPT ![h] = IF g.res = "hang" THEN "blocked" ELSE @]
    /\ calls' = [calls EXCEPT ![h] = @ + 1]
    /\ UNCHANGED << cycles, hadGood, published, sent, queue, uiVars >>
    /\ UNCHANGED probeVars

\* ------------------------------------------------------------ specifications
\* Nothing has used the monitor of host g yet.
Unused(g) == pc[g] = "start" /\ calls[g] = 0

\* The monitor of h is the only one in use.
Alone(h) == \A g \in Hosts \ {h} : Unused(g)

\* Spec: one poller at a time with the dashboard (the threads of the other
\* machines have not run yet), under everything Scenarios offers.

Next ==
    \/ \E h \in Hosts :
          Alone(h) /\ Poller(h, ConnOutcomes, Scenarios(TypeOf(h)))
    \/ Ui(TermSizes, Keys)
    \/ Tick

Spec == Init /\ [][Next]_vars

\* SessionSpec: one session used call by call.
SessionNext == \E h \in Hosts : Alone(h) /\ Execute(h)

SessionSpec == Init /\ [][SessionNext]_vars

\* FleetSpec: every poller and the dashboard together, under fair scheduling of
\* the threads.  A connect succeeds, raises or never returns; a pass is healthy,
\* never returns, or loses the pipe and cannot reconnect; nobody quits.
FleetOutcomes == {"ready", "raise", "hang"}

FleetScenarios(type) ==
    { Healthy(type),
      [Healthy(type) EXCEPT ![1] = Silent(<< >>, "hang")],
      [i \in 1..4 |-> IF i = 1 THEN Broken
                      ELSE Reconnecting(Healthy(type)[i], "raise")] }

FleetSizes == { << 24, 80 >> }

FleetKeys == {"none"}

FleetPoller(h) == Poller(h, FleetOutcomes, FleetScenarios(TypeOf(h)))

FleetUi == Ui(FleetSizes, FleetKeys)

FleetNext == (\E h \in Hosts : FleetPoller(h)) \/ FleetUi

FleetSpec ==
    /\ Init
    /\ [][FleetNext]_vars
    /\ \A h \in Hosts : WF_vars(FleetPoller(h))
    /\ WF_vars(FleetUi)

\* RefreshSpec: the dashboard with the clock and one poller at a time, in the
\* environment of FleetSpec, with every key.
RefreshNext ==
    \/ \E h \in Hosts :
          Alone(h) /\ Poller(h, FleetOutcomes, FleetScenarios(TypeOf(h)))
    \/ Ui(FleetSizes, Keys)
    \/ Tick

RefreshSpec == Init /\ [][RefreshNext]_vars

\* LayoutSpec: the dashboard of three machines whose store is already filled,
\* repainting on terminals of several sizes as the clock forces it to.
LayoutHosts == << "gpu01", "gpu03", "xpu02" >>

\* n device records, as parse_gpu gives them for n lines of nvidia-smi.
Devices(n) == ParseGpu([i \in 1..n |-> GpuOut[1]])

\* The entries a host may have in the store: none, None, a bare snapshot (a
\* panel of 3 rows), one with three devices and processes (7 rows) and one
\* with nine devices, of which max_devices are shown (11 rows).
LayoutInfos ==
    { NoKey, None,
      Snapshot(0, ZeroMem, << >>, << >>),
      Snapshot(CpuInfo(CpuOut), MemInfo(MemOut), Devices(3), Processes(ProcOut)),
      Snapshot(CpuInfo(CpuOut), MemInfo(MemOut), Devices(9), << >>) }

\* Terminals of one, two and three columns, a low one, and one narrower than
\* min_col_width.
LayoutSizes ==
    { << 24, 80 >>, << 24, 130 >>, << 12, 130 >>, << 24, 200 >>, << 24, 50 >> }

LayoutInit ==
    /\ connected = [h \in Hosts |-> FALSE]
    /\ ready = [h \in Hosts |-> FALSE]
    /\ pc = [h \in Hosts |-> "start"]
    /\ cycles = [h \in Hosts |-> 0]
    /\ hadGood = [h \in Hosts |-> FALSE]
    /\ published = [h \in Hosts |-> 0]
    /\ last = [h \in Hosts |-> NoCall]
    /\ calls = [h \in Hosts |-> 0]
    /\ queue = << >>
    /\ data \in [{ LayoutHosts[i] : i \in DOMAIN LayoutHosts } -> LayoutInfos]
    /\ stale = [h \in Hosts |-> NoKey]
    /\ uiPc = "loop"
    /\ running = TRUE
    /\ has_update = FALSE
    /\ elapsed = RefreshInterval
    /\ last_win_size = << 0, 0 >>
    /\ sent = [h \in Hosts |-> << >>]
    /\ key = "none"
    /\ painted = FALSE
    /\ sinceRepaint = RefreshInterval
    /\ placed = << >>
    /\ Untried

LayoutNext ==
    \/ UiLoop
    \/ UiCheck
    \/ UiRefresh(LayoutHosts, LayoutSizes)
    \/ UiInput({"none"})
    \/ Tick

LayoutSpec == LayoutInit /\ [][LayoutNext]_vars

\* ParseSpec: parse_gpu applied to every output of up to MaxLines lines.
\* The lines the output may hold: two well-formed ones, one with five fields,
\* one with seven, one whose memory field and one whose power field is no
\* number, and the empty line.
GpuLines ==
    { GpuOut[1],
      << "1", "0", "8192", "0", "60", "93.0" >>,
      << "0", "1024", "8192", "50", "60" >>,
      << "0", "1024", "8192", "50", "60", "120.5", "0" >>,
      << "0", "[N/A]", "8192", "50", "60", "120.5" >>,
      << "0", "1024", "8192", "50", "60", "[N/A]" >>,
      << >> }

GpuOutputs == UNION { [1..n -> GpuLines] : n \in 0..MaxLines }

ParseInit ==
    /\ Constructed
    /\ output \in GpuOutputs
    /\ gpus = NotYet
    /\ pipe = [h \in Hosts |-> << >>]
    /\ target = NotYet
    /\ written = NotYet

\* gpus = self.parse_gpu(output)
CallParseGpu ==
    /\ ~gpus.done
    /\ gpus' = [done |-> TRUE, list |-> ParseGpu(output)]
    /\ UNCHANGED << sessionVars, pollerVars, callVars, queue, uiVars, output,
                    pipe, target, written >>

ParseSpec == ParseInit /\ [][CallParseGpu]_vars

\* PipeSpec: one session used call by call, with the channel between the
\* calls: what the remote shell prints for a command and the reader has not
\* read stays in the pipe for the next readline().
\* The line the n-th command prints.
OutputOf(n) == << << "output", ToString(n) >> >>

\* What the remote shell prints for `cmd ; echo "CMD_FINISHED_$?"`: the output
\* of the command, then the sentinel with its exit code.  The sentinel names
\* no command.
Emitted(n, code) == OutputOf(n) \o << Fin(code) >>

\* The lines of the stream that the read loop leaves unread: those after the
\* first sentinel; none when it read on until the 10 s had passed.
RECURSIVE Unread(_)
Unread(stream) ==
    IF stream = << >> THEN << >>
    ELSE IF HasSentinel(Head(stream)) THEN Tail(stream)
    ELSE Unread(Tail(stream))

\* The n-th get_remote_info call on the monitor of host h.  The remote prints
\* Emitted(n, code); the first k of these lines arrive within the 10 s of the
\* call, the others later.  A reconnect starts a new child with empty pipes.
ExecuteNext(h) ==
    /\ pc[h] = "start"
    /\ calls[h] < MaxCalls
    /\ \E code \in {"0", "1"} : \E k \in 0..2 :
         LET n == calls[h] + 1
             old == IF NeedsConnect(connected[h]) THEN << >> ELSE pipe[h]
             stream == old \o SubSeq(Emitted(n, code), 1, k)
             late == SubSeq(Emitted(n, code), k + 1, 2)
             g == GetRemoteInfo(connected[h], ready[h],
                                [conn |-> "ready", write |-> "ok",
                                 stream |-> stream, term |-> "timeout"])
         IN  /\ connected' = [connected EXCEPT ![h] = g.connected]
             /\ ready' = [ready EXCEPT ![h] = g.ready]
             /\ pipe' = [pipe EXCEPT ![h] = Unread(stream) \o late]
             /\ last' = [last EXCEPT ![h] =
                            CallRecord(g, last[h].kind, connected[h])
                            @@ [cmd |-> n, own |-> IntVal[code]]]
    /\ calls' = [calls EXCEPT ![h] = @ + 1]
    /\ UNCHANGED << pc, cycles, hadGood, published, sent, queue, uiVars,
                    output, gpus, target, written >>

PipeNext == \E h \in Hosts : Alone(h) /\ ExecuteNext(h)

PipeSpec == Init /\ [][PipeNext]_vars

\* WriteSpec: safe_addstr called once with a target and a text on a screen.
\* len(title) of the title bar of update_display
TitleLen == 35

\* stdscr.addstr(y, x, text) on a screen of the given size, for a text of
\* `len` one-cell characters without a newline: the cells it writes and whether
\* it raises curses.error.  It fails without writing when (y, x) is not a cell
\* of the screen; else it writes from (y, x) on, going on at the start of the
\* next line after the last column, and fails when it has filled the
\* bottom-right cell.
Addstr(size, y, x, len) ==
    LET max_y == size[1]
        max_x == size[2]
        start == y * max_x + x
        cells == max_y * max_x
    IN  IF y < 0 \/ y >= max_y \/ x < 0 \/ x >= max_x
        THEN [cells |-> {}, error |-> TRUE]
        ELSE [cells |-> { << p \div max_x, p % max_x >> :
                            p \in start..(Min(start + len, cells) - 1) },
              error |-> start + len >= cells]

\* (mutant) safe_addstr without the try/except around addstr.
SafeAddstrUncaught(size, y, x, len) ==
    IF y >= size[1] \/ x >= size[2]
    THEN [cells |-> {}, raised |-> FALSE]
    ELSE LET a == Addstr(size, y, x, Min(len, size[2] - x))
         IN  [cells |-> a.cells, raised |-> a.error]

\* safe_addstr(y, x, text) for a text of `len` characters: the cells written
\* and whether the call raises.
SafeAddstr(size, y, x, len) ==
    IF y >= size[1] \/ x >= size[2]
    THEN [cells |-> {}, raised |-> FALSE]
    ELSE LET a == Addstr(size, y, x, Min(len, size[2] - x))
         IN  [cells |-> a.cells, raised |-> FALSE]

\* The sizes getmaxyx() may report to safe_addstr.
WriteSizes == (1..MaxRow) \X (1..MaxCol)

\* self.safe_addstr(y, x, text) with any target, on and off the screen, and
\* any text length.
CallSafeAddstr ==
    \E size \in WriteSizes : \E y \in -1..(MaxRow + 1) :
    \E x \in -2..(MaxCol + 1) : \E len \in 0..MaxText :
        /\ ~target.done
        /\ target' = [done |-> TRUE, size |-> size, y |-> y, x |-> x,
                      len |-> len]
        /\ written' = SafeAddstr(size, y, x, len)
        /\ UNCHANGED << sessionVars, pollerVars, callVars, queue, uiVars,
                        output, gpus, pipe >>

\* self.safe_addstr(0, (max_x - len(title)) // 2, title, ...) of update_display
DrawTitle ==
    \E size \in WriteSizes :
        LET x == (size[2] - TitleLen) \div 2
        IN  /\ ~target.done
            /\ target' = [done |-> TRUE, size |-> size, y |-> 0, x |-> x,
                          len |-> TitleLen]
            /\ written' = SafeAddstr(size, 0, x, TitleLen)
            /\ UNCHANGED << sessionVars, pollerVars, callVars, queue, uiVars,
                            output, gpus, pipe >>

WriteNext == CallSafeAddstr \/ DrawTitle

WriteSpec == Init /\ [][WriteNext]_vars

\* ------------------------------------------------------------------ claims
ConnectFailures == {"connfail", "connraise", "connhang"}

\* C1 (as claimed): a get_remote_info call that sees no sentinel within 10 s
\* returns no output and leaves the session disconnected, and the call that
\* follows a timeout reconnects before writing.
C1_TimeoutDisconnects ==
    \A h \in Hosts :
        /\ last[h].kind = "timeout" => last[h].ret = << >> /\ ~connected[h]
        /\ last[h].prev = "timeout" => last[h].reconn = 1

\* C2: a call whose exit code is not 0 (a non-zero code on the sentinel line, a
\* code int() rejects, which counts as -1, or no sentinel at all) returns no
\* output, whatever lines were read before the sentinel.
C2_NonZeroExitNoOutput ==
    \A h \in Hosts : last[h].code # 0 => last[h].ret = << >>

\* C2 witness: a call read output lines, then a sentinel with a non-zero or
\* unparsable code, and returned nothing.
C2_Witness ==
    \E h \in Hosts :
        /\ last[h].kind = "nonzero"
        /\ last[h].out # << >>
        /\ last[h].ret = << >>

\* C3 (as claimed): a session is connected only if SHELL_READY was read on its
\* channel, and a command is written only to such a channel.
C3_OnlyReadyServes ==
    \A h \in Hosts :
        /\ connected[h] => ready[h]
        /\ last[h].wrote => last[h].chanReady

\* C4: a call that ends by an exception leaves the session disconnected; the
\* call after it makes exactly one ssh_connect call; when that fails the call
\* yields no output and writes no command, and when it succeeds the command is
\* written (unless the write itself raises).
C4_OneReconnect ==
    \A h \in Hosts :
        /\ last[h].kind = "ioerror" => ~connected[h] /\ last[h].ret = << >>
        /\ last[h].prev = "ioerror" =>
              /\ ~last[h].pre
              /\ last[h].reconn = 1
              /\ last[h].kind \in ConnectFailures =>
                    ~last[h].wrote /\ last[h].ret = << >>
              /\ last[h].kind \in {"ok", "nonzero", "timeout", "hang"} =>
                    last[h].wrote

\* C4 witness: the call after a transport error reconnected once and its
\* command went through.
C4_Witness ==
    \E h \in Hosts :
        /\ last[h].prev = "ioerror"
        /\ last[h].reconn = 1
        /\ last[h].kind = "ok"
        /\ last[h].wrote
        /\ connected[h]

\* monitor() ended at its first ssh_connect.
FirstConnectFailed(h) == pc[h] \in {"returned", "died"}

\* C5 (as claimed): a host whose first connect attempt failed has published
\* exactly one event, which is None, has run no poll cycle, and its store entry
\* is None once the event is absorbed.
C5_FirstConnectFailure ==
    \A h \in Hosts :
        FirstConnectFailed(h) =>
            /\ published[h] = 1
            /\ cycles[h] = 0
            /\ \/ \E i \in DOMAIN queue :
                     queue[i].host = h /\ queue[i].data = None
               \/ data[h] = None

\* C6 (as claimed): a pass that fails after a good pass publishes None, and the
\* poller of a host that had a good pass never leaves its loop.
C6_MidStreamFailure ==
    /\ \A i \in DOMAIN queue :
          queue[i].src = "cycle" /\ ~queue[i].ok /\ queue[i].afterGood =>
              queue[i].data = None
    /\ \A h \in Hosts : hadGood[h] => pc[h] # "broke"

\* C7 (as claimed): the event of a pass in which a get_remote_info call failed
\* is None.
C7_FailedPassIsAbsent ==
    \A i \in DOMAIN queue :
        queue[i].src = "cycle" /\ ~queue[i].ok => queue[i].data = None

\* C8 (as claimed): once the store has taken the snapshot of a good pass of a
\* host, its entry for the host is the last such snapshot.
C8_LastGoodSnapshotStays ==
    \A h \in Hosts : stale[h] # NoKey => data[h] = stale[h]

\* C9 (as claimed): update_display never raises, whatever the pollers have
\* published.
C9_RepaintNeverRaises == uiPc # "crashed"

\* monitor() of host h has ended or will never return from a call.
Halted(h) == pc[h] \in {"returned", "died", "broke", "blocked"}

Waiting(h) ==
    LET Mine(ev) == ev.host = h IN SelectSeq(queue, Mine)

\* C11: for each host, the events waiting in the queue are the latest ones the
\* host has put, in the order it put them (numbers and payloads), and the
\* store entry of the host is the payload put just before them: the store
\* follows the poller's order and never returns to an older payload.
C11_PerHostOrder ==
    \A h \in Hosts :
        LET mine == Waiting(h)
            n == Len(sent[h])
            k == Len(mine)
        IN  /\ k <= n
            /\ \A i \in 1..k :
                  /\ mine[i].seq = n - k + i
                  /\ mine[i].data = sent[h][n - k + i]
            /\ data[h] = IF n = k THEN NoKey ELSE sent[h][n - k]

\* C11 witness: the last event of one host waits behind an event of the other
\* host, while the store holds an earlier payload of the first host.
C11_Witness ==
    \E a \in Hosts : \E b \in Hosts \ {a} :
        /\ Len(queue) >= 2
        /\ queue[1].host = b
        /\ Len(Waiting(a)) = 1
        /\ Len(sent[a]) = MaxCycles
        /\ data[a].kind = "data"

\* C12: the step of the dashboard loop that passes the refresh test calls
\* update_display exactly when an event was drained in the iteration or the
\* time since the last repaint has reached the refresh interval.
C12_RepaintWhenDue ==
    [][uiPc = "refresh" /\ uiPc' # "refresh" =>
          (painted' <=> (has_update \/ sinceRepaint >= RefreshInterval))]_vars

\* C12 witness: a repaint forced by the clock alone, after data had arrived
\* and been painted before.
C12_Witness ==
    /\ uiPc = "input"
    /\ painted
    /\ ~has_update
    /\ \E h \in Hosts : data[h].kind = "data"

\* C13 (as claimed): when the loop has read 'q' or 'Q' it has cleared running,
\* so that no further iteration starts, and nothing else clears it.
C13_QuitKeys ==
    /\ uiPc = "loop" /\ key \in {"q", "Q"} => ~running
    /\ ~running => key \in {"q", "Q"}

\* The sizes last_win_size may hold when update_display is called.
LastSizes == LayoutSizes \cup { << 0, 0 >> }

WellFormedGpu(line) ==
    /\ Len(line) = 6
    /\ \A i \in 1..5 : line[i] \in DOMAIN IntVal
    /\ line[6] \in DOMAIN FloatVal

\* C15: parse_gpu returns one record for each well-formed line of its input,
\* in input order and with the six values of the line, and nothing for the
\* other lines, wherever they stand.
C15_GpuPerLine ==
    gpus.done =>
        LET good == SelectSeq(output, WellFormedGpu) IN
        /\ Len(gpus.list) = Len(good)
        /\ \A i \in 1..Len(good) :
              gpus.list[i] =
                  [id |-> IntVal[good[i][1]], used |-> IntVal[good[i][2]],
                   total |-> IntVal[good[i][3]], util |-> IntVal[good[i][4]],
                   temp |-> IntVal[good[i][5]], power |-> FloatVal[good[i][6]],
                   type |-> "GPU"]

\* C15 witness: a malformed line between two different well-formed lines,
\* both of which came through.
C15_Witness ==
    /\ gpus.done
    /\ Len(output) = 3
    /\ WellFormedGpu(output[1])
    /\ output[2] # << >> /\ ~WellFormedGpu(output[2])
    /\ WellFormedGpu(output[3])
    /\ output[1] # output[3]
    /\ Len(gpus.list) = 2

\* C16 (as claimed): a call that found a sentinel used the exit code of its own
\* command, and a call that returned output returned the lines of its own
\* command.
C16_OwnResponse ==
    \A h \in Hosts :
        /\ last[h].kind \in {"ok", "nonzero"} => last[h].code = last[h].own
        /\ last[h].kind = "ok" => last[h].ret = OutputOf(last[h].cmd)

\* The hosts whose store entry update_display draws, in sorted order.
Displayable == SelectSeq(LayoutHosts, LAMBDA h : data[h].kind = "data")

\* C17: after a repaint every panel placed lies inside the terminal less its
\* margins (col + width <= max_x - margin, row + height <= max_y - 2); the
\* panels are the first displayable hosts in sorted order, each to the right
\* of or below the one before, so none is placed after one that was omitted.
C17_PanelsFit ==
    painted /\ uiPc = "input" =>
        /\ Len(placed) <= Len(Displayable)
        /\ \A i \in 1..Len(placed) :
              /\ placed[i].host = Displayable[i]
              /\ placed[i].col + placed[i].width <= last_win_size[2] - margin
              /\ placed[i].row + placed[i].height <= last_win_size[1] - 2
              /\ i > 1 =>
                    \/ placed[i].row > placed[i - 1].row
                    \/ /\ placed[i].row = placed[i - 1].row
                       /\ placed[i].col > placed[i - 1].col

\* C17 witness: a repaint on the low terminal placed a panel and omitted the
\* next displayable host, whose panel is too high.
C17_Witness ==
    /\ painted
    /\ uiPc = "input"
    /\ last_win_size = << 12, 130 >>
    /\ Len(placed) = 1
    /\ Len(Displayable) = 3

\* C18 (as claimed): on a terminal of max_x columns the panels are laid out
\* in max(1, (max_x - margin) div (min_col_width + margin)) columns, and each
\* panel placed has the width that fills the line evenly,
\* (max_x - margin * (cols + 1)) div cols.
C18_EvenColumns ==
    painted /\ uiPc = "input" =>
        LET max_x == last_win_size[2]
            cols == Max(1, (max_x - margin) \div (MinColWidth + margin))
        IN  /\ Cols(max_x) = cols
            /\ \A i \in 1..Len(placed) :
                  placed[i].width = (max_x - margin * (cols + 1)) \div cols

\* C20 (as claimed): no two panels placed by one repaint overlap: their
\* rectangles [row, row + height) x [col, col + width) are disjoint.
C20_NoOverlap ==
    painted /\ uiPc = "input" =>
        \A i, j \in 1..Len(placed) :
            i < j =>
                \/ placed[i].row + placed[i].height <= placed[j].row
                \/ placed[j].row + placed[j].height <= placed[i].row
                \/ placed[i].col + placed[i].width <= placed[j].col
                \/ placed[j].col + placed[j].width <= placed[i].col

\* C19: a safe_addstr call never raises, and what it writes lies on the
\* screen, in row y from column x on: every cell written has
\* 0 <= row < max_y and 0 <= column < max_x.
C19_ClippedWrite ==
    target.done =>
        /\ ~written.raised
        /\ \A c \in written.cells :
              /\ 0 <= c[1] /\ c[1] < target.size[1]
              /\ 0 <= c[2] /\ c[2] < target.size[2]
              /\ c[1] = target.y /\ c[2] >= target.x

\* C19 witness: the title was drawn on a terminal narrower than the title,
\* at a negative column, and nothing was written.
C19_Witness ==
    /\ target.done
    /\ target.len = TitleLen
    /\ target.x < 0
    /\ target.x = (target.size[2] - TitleLen) \div 2
    /\ written.cells = {}

====
